---- MODULE Spec2Model ----
(***************************************************************************)
(* Model of app.py: the /generate-story request handler, the LLM client    *)
(* wrapper, the story cleaner and the quiz / vocabulary line scanners.     *)
(*                                                                         *)
(* A Python str is modelled as a sequence of one-character strings, so     *)
(* that split, strip, startswith and slicing are computed character by     *)
(* character as the code computes them.                                    *)
(***************************************************************************)
EXTENDS Integers, Sequences, FiniteSets, TLC

VARIABLES
    pc,                  \* position of the handler: idle, a stage awaiting its LLM call, done
    request,             \* the HTTP request being handled
    calls,               \* get_llm_response calls made for this request, in order
    replies,             \* what the upstream answered to those calls, in order
    story_content,       \* handler locals (None, or the empty list, until assigned)
    quiz_questions,
    learning_objectives,
    vocabulary,
    summary,
    response,            \* the (status, JSON body) the handler returned
    fn,                  \* pure-function harness: which function is exercised
    text,                \* its input text
    result,              \* its output
    result2,             \* the output of the function applied to its own output
    phase                \* input, once, twice

hvars == <<pc, request, calls, replies, story_content, quiz_questions,
           learning_objectives, vocabulary, summary, response>>
fvars == <<fn, text, result, result2, phase>>
vars == <<pc, request, calls, replies, story_content, quiz_questions,
          learning_objectives, vocabulary, summary, response,
          fn, text, result, result2, phase>>

(***************************************************************************)
(* Bounds of the model.                                                    *)
(***************************************************************************)
MaxStoryLines == 3
MaxQuizLines == 4
MaxOptionLines == 6
MaxVocabLines == 4

(***************************************************************************)
(* Python str primitives.                                                  *)
(***************************************************************************)
NL == "\n"

\* Python's None, distinct from every str of the model (whose elements are
\* single characters).
None == <<"<None>">>

\* The characters str.strip() removes.
Whitespace == {" ", "\t", "\r", "\n"}

\* str.lower(), on the letters the model's texts use.
LowerChar(c) ==
    CASE c = "A" -> "a" [] c = "B" -> "b" [] c = "C" -> "c" [] c = "D" -> "d"
      [] c = "E" -> "e" [] c = "F" -> "f" [] c = "G" -> "g" [] c = "H" -> "h"
      [] c = "I" -> "i" [] c = "J" -> "j" [] c = "K" -> "k" [] c = "L" -> "l"
      [] c = "M" -> "m" [] c = "N" -> "n" [] c = "O" -> "o" [] c = "P" -> "p"
      [] c = "Q" -> "q" [] c = "R" -> "r" [] c = "S" -> "s" [] c = "T" -> "t"
      [] c = "U" -> "u" [] c = "V" -> "v" [] c = "W" -> "w" [] c = "X" -> "x"
      [] c = "Y" -> "y" [] c = "Z" -> "z" [] OTHER -> c

Lower(s) == [i \in 1..Len(s) |-> LowerChar(s[i])]

\* s.startswith(p)
StartsWith(s, p) == Len(s) >= Len(p) /\ SubSeq(s, 1, Len(p)) = p

\* s[n:]
Slice(s, n) == SubSeq(s, n + 1, Len(s))

\* s.strip()
Strip(s) ==
    LET keep == {i \in 1..Len(s) : s[i] \notin Whitespace}
    IN  IF keep = {} THEN <<>>
        ELSE LET first == CHOOSE i \in keep : \A j \in keep : i <= j
                 last == CHOOSE i \in keep : \A j \in keep : j <= i
             IN  SubSeq(s, first, last)

\* s.split('\n'): always at least one piece; a trailing newline gives a
\* trailing empty piece.
RECURSIVE Split(_)
Split(s) ==
    LET at == {i \in 1..Len(s) : s[i] = NL}
    IN  IF at = {} THEN <<s>>
        ELSE LET i == CHOOSE k \in at : \A j \in at : k <= j
             IN  <<SubSeq(s, 1, i - 1)>> \o Split(SubSeq(s, i + 1, Len(s)))

\* sep.join(pieces)
RECURSIVE Join(_, _)
Join(pieces, sep) ==
    IF pieces = <<>> THEN <<>>
    ELSE IF Len(pieces) = 1 THEN pieces[1]
    ELSE pieces[1] \o sep \o Join(Tail(pieces), sep)

\* [line.strip() for line in text.split('\n') if line.strip()]
RECURSIVE StripNonEmpty(_)
StripNonEmpty(pieces) ==
    IF pieces = <<>> THEN <<>>
    ELSE LET line == Strip(Head(pieces))
         IN  IF line # <<>> THEN <<line>> \o StripNonEmpty(Tail(pieces))
             ELSE StripNonEmpty(Tail(pieces))

StrippedLines(t) == StripNonEmpty(Split(t))

(***************************************************************************)
(* clean_story_output                                                      *)
(***************************************************************************)
TitleMaxLen == 100

TerminalPunctuation == {".", "!", "?", ",", ":", ";"}

Str_Here == <<"H", "e", "r", "e">>
Str_once == <<"o", "n", "c", "e">>

\* A plausible slip: the "once" test without lower().
LooksLikeTitleCaseSensitive(line) ==
    /\ Len(line) > 0
    /\ Len(line) < TitleMaxLen
    /\ line[Len(line)] \notin TerminalPunctuation
    /\ ~StartsWith(line, Str_Here)
    /\ ~StartsWith(line, Str_once)

\* The condition of the if in the scan loop.
LooksLikeTitle(line) ==
    /\ Len(line) > 0
    /\ Len(line) < TitleMaxLen
    /\ line[Len(line)] \notin TerminalPunctuation
    /\ ~StartsWith(line, Str_Here)
    /\ ~StartsWith(Lower(line), Str_once)

\* for i, line in enumerate(lines): if <title>: return '\n\n'.join(lines[i:])
RECURSIVE ScanForTitle(_, _)
ScanForTitle(lines, i) ==
    IF i > Len(lines) THEN Join(lines, <<NL, NL>>)
    ELSE IF LooksLikeTitle(lines[i])
         THEN Join(SubSeq(lines, i, Len(lines)), <<NL, NL>>)
         ELSE ScanForTitle(lines, i + 1)

\* A plausible slip: the slice starts one line late, lines[i+1:].
RECURSIVE ScanForTitleLate(_, _)
ScanForTitleLate(lines, i) ==
    IF i > Len(lines) THEN Join(lines, <<NL, NL>>)
    ELSE IF LooksLikeTitle(lines[i])
         THEN Join(SubSeq(lines, i + 1, Len(lines)), <<NL, NL>>)
         ELSE ScanForTitleLate(lines, i + 1)

clean_story_output_late(t, language) == ScanForTitleLate(StrippedLines(t), 1)

clean_story_output(t, language) == ScanForTitle(StrippedLines(t), 1)

(***************************************************************************)
(* parse_quiz_response                                                     *)
(***************************************************************************)
Str_Q == <<"Q", ":">>
Str_A == <<"A", ":">>
Str_B == <<"B", ":">>
Str_C == <<"C", ":">>
Str_D == <<"D", ":">>
Str_Correct == <<"C", "o", "r", "r", "e", "c", "t", ":">>
Str_Explanation == <<"E", "x", "p", "l", "a", "n", "a", "t", "i", "o", "n", ":">>

\* None where the code holds a dict or None: falsy, like the empty dict.
NoDict == <<>>

\* The truth value of a dict (or of None where a dict is expected).
DictTruthy(d) == DOMAIN d # {}

\* d[k] = v
DictSet(d, k, v) == [x \in DOMAIN d \cup {k} |-> IF x = k THEN v ELSE d[x]]

\* The dict a Q: line opens.
NewQuestion(line) ==
    [question |-> Strip(Slice(line, 2)),
     options |-> <<>>,
     correct_answer |-> None,
     explanation |-> None]

\* if current_question: questions.append(current_question)
QuizFlush(questions, current_question) ==
    IF DictTruthy(current_question) THEN Append(questions, current_question)
    ELSE questions

\* A plausible slip: the record still open at end of input is not appended.
QuizFinishDropped(questions, current_question) == questions

\* After the loop: the record still open is appended, and the list returned.
QuizFinish(questions, current_question) == QuizFlush(questions, current_question)

\* The body of the for loop, and the flush after it.
RECURSIVE QuizScan(_, _, _)
QuizScan(lines, questions, current_question) ==
    IF lines = <<>> THEN QuizFinish(questions, current_question)
    ELSE
      LET line == Strip(Head(lines))
          rest == Tail(lines)
      IN  IF line = <<>> THEN QuizScan(rest, questions, current_question)
          ELSE IF StartsWith(line, Str_Q)
          THEN QuizScan(rest, QuizFlush(questions, current_question), NewQuestion(line))
          ELSE IF \/ StartsWith(line, Str_A)
                  \/ StartsWith(line, Str_B)
                  \/ StartsWith(line, Str_C)
                  \/ StartsWith(line, Str_D)
          THEN IF DictTruthy(current_question)
               THEN QuizScan(rest, questions,
                        [current_question EXCEPT
                            !.options = Append(@, Strip(Slice(line, 2)))])
               ELSE QuizScan(rest, questions, current_question)
          ELSE IF StartsWith(line, Str_Correct)
          THEN IF DictTruthy(current_question)
               THEN QuizScan(rest, questions,
                        [current_question EXCEPT
                            !.correct_answer = Strip(Slice(line, 8))])
               ELSE QuizScan(rest, questions, current_question)
          ELSE IF StartsWith(line, Str_Explanation)
          THEN IF DictTruthy(current_question)
               THEN QuizScan(rest, questions,
                        [current_question EXCEPT
                            !.explanation = Strip(Slice(line, 11))])
               ELSE QuizScan(rest, questions, current_question)
          ELSE QuizScan(rest, questions, current_question)

parse_quiz_response(resp) == QuizScan(Split(resp), <<>>, NoDict)

(***************************************************************************)
(* generate_vocabulary: the scan of the LLM's reply                        *)
(***************************************************************************)
Str_Word == <<"W", "o", "r", "d", ":">>
Str_Definition == <<"D", "e", "f", "i", "n", "i", "t", "i", "o", "n", ":">>
Str_Example == <<"E", "x", "a", "m", "p", "l", "e", ":">>
Str_PartOfSpeech ==
    <<"P", "a", "r", "t", " ", "o", "f", " ", "S", "p", "e", "e", "c", "h", ":">>

\* if current_word: vocabulary.append(current_word)
VocabFlush(vocab, current_word) ==
    IF DictTruthy(current_word) THEN Append(vocab, current_word) ELSE vocab

RECURSIVE VocabScan(_, _, _)
VocabScan(lines, vocab, current_word) ==
    IF lines = <<>> THEN VocabFlush(vocab, current_word)
    ELSE
      LET line == Strip(Head(lines))
          rest == Tail(lines)
      IN  IF line = <<>>
          THEN IF DictTruthy(current_word)
               THEN VocabScan(rest, Append(vocab, current_word), <<>>)
               ELSE VocabScan(rest, vocab, current_word)
          ELSE IF StartsWith(line, Str_Word)
          THEN VocabScan(rest, VocabFlush(vocab, current_word),
                         [word |-> Strip(Slice(line, 5))])
          ELSE IF StartsWith(line, Str_Definition)
          THEN VocabScan(rest, vocab,
                         DictSet(current_word, "definition", Strip(Slice(line, 11))))
          ELSE IF StartsWith(line, Str_Example)
          THEN VocabScan(rest, vocab,
                         DictSet(current_word, "example", Strip(Slice(line, 8))))
          ELSE IF StartsWith(line, Str_PartOfSpeech)
          THEN VocabScan(rest, vocab,
                         DictSet(current_word, "part_of_speech", Strip(Slice(line, 14))))
          ELSE VocabScan(rest, vocab, current_word)

generate_vocabulary_scan(resp) == VocabScan(Split(resp), <<>>, <<>>)

(***************************************************************************)
(* Input texts: every sequence of at most n lines of a line set, joined    *)
(* by newlines.                                                            *)
(***************************************************************************)
RECURSIVE Rep(_, _)
Rep(c, n) == IF n = 0 THEN <<>> ELSE <<c>> \o Rep(c, n - 1)

LineSeqs(lineSet, n) == UNION {[1..k -> lineSet] : k \in 0..n}

Texts(lineSet, n) == {Join(ls, <<NL>>) : ls \in LineSeqs(lineSet, n)}

StoryLines ==
    { <<"T", "i">>,                                  \* a title
      <<" ", "T", "2", "\t">>,                       \* a title with padding
      <<"H", "e", "r", "e", " ", "i", "t">>,         \* begins with Here
      <<"O", "n", "c", "e", " ", "u">>,              \* begins with Once
      <<"o", "N", "C", "E", " ", "u">>,              \* begins with oNCE
      <<"B", ".">>,                                  \* ends in punctuation
      Rep("a", TitleMaxLen),                         \* 100 characters
      Rep("a", TitleMaxLen - 1),                     \* 99 characters
      <<" ", " ">>,                                  \* whitespace only
      <<>> }                                         \* empty

StoryTexts == Texts(StoryLines, MaxStoryLines)

QuizLines ==
    { <<"Q", ":", " ", "a">>,
      <<" ", "Q", ":", "b">>,
      <<"A", ":", " ", "x">>,
      <<"D", ":", "y", " ">>,
      <<"C", "o", "r", "r", "e", "c", "t", ":", " ", "x">>,
      <<"E", "x", "p", "l", "a", "n", "a", "t", "i", "o", "n", ":", " ", "b">>,
      <<>> }

\* Few kinds of line, so that one question can collect many option lines.
OptionLines ==
    { <<"Q", ":", " ", "a">>,
      <<"A", ":", " ", "x">>,
      <<"B", ":", " ", "y">>,
      <<"C", ":", "z">> }

QuizTexts == Texts(QuizLines, MaxQuizLines) \cup Texts(OptionLines, MaxOptionLines)

VocabLines ==
    { <<"W", "o", "r", "d", ":", " ", "w">>,
      <<"W", "o", "r", "d", ":", "v", " ">>,
      <<"D", "e", "f", "i", "n", "i", "t", "i", "o", "n", ":", " ", "d">>,
      <<"E", "x", "a", "m", "p", "l", "e", ":", " ", "e">>,
      <<"P", "a", "r", "t", " ", "o", "f", " ", "S", "p", "e", "e", "c", "h", ":", " ", "n">>,
      <<>> }

VocabTexts == Texts(VocabLines, MaxVocabLines)


(***************************************************************************)
(* The handler's variables at rest, and the harness's.                     *)
(***************************************************************************)
NoRequest == [kind |-> "none", obj |-> <<>>]
NoResponse == [status |-> 0, body |-> <<>>]

HandlerIdle ==
    /\ pc = "idle"
    /\ request = NoRequest
    /\ calls = <<>>
    /\ replies = <<>>
    /\ story_content = None
    /\ quiz_questions = <<>>
    /\ learning_objectives = <<>>
    /\ vocabulary = <<>>
    /\ summary = None
    /\ response = NoResponse

HarnessOff ==
    /\ fn = "none"
    /\ text = <<>>
    /\ result = None
    /\ result2 = None
    /\ phase = "input"

(***************************************************************************)
(* The /generate-story handler.                                            *)
(*                                                                         *)
(* A request body is nobody (no JSON body), invalid (malformed JSON), null *)
(* (the JSON value null), array (a non-empty JSON array) or object; obj is *)
(* the JSON object, a function from its keys to str or None.               *)
(***************************************************************************)
RequestKeys == {"academic_grade", "subject", "setting", "language"}

FieldValues(k) ==
    CASE k = "academic_grade" -> {None, <<>>, <<"5">>}
      [] k = "subject" -> {None, <<>>, <<"s">>}
      [] k = "setting" -> {<<"f">>}
      [] k = "language" -> {<<"D", "e">>}

JsonObjects ==
    UNION { {o \in [D -> UNION {FieldValues(k) : k \in RequestKeys}] :
                \A k \in D : o[k] \in FieldValues(k)} : D \in SUBSET RequestKeys }

ObjectRequests == {[kind |-> "object", obj |-> o] : o \in JsonObjects}

OtherRequests ==
    {[kind |-> k, obj |-> <<>>] : k \in {"nobody", "invalid", "null", "array"}}

\* request.get_json() with its default arguments. Malformed JSON raises
\* BadRequest; a request that carries no JSON body gives None or raises
\* UnsupportedMediaType, by the framework's version; otherwise the parsed
\* value is returned (null parses to None).
GetJsonOutcomes(req) ==
    CASE req.kind = "nobody" ->
           { [raised |-> FALSE, error |-> "", type |-> "None", obj |-> <<>>],
             [raised |-> TRUE, error |-> "415 Unsupported Media Type",
              type |-> "None", obj |-> <<>>] }
      [] req.kind = "invalid" ->
           { [raised |-> TRUE, error |-> "400 Bad Request",
              type |-> "None", obj |-> <<>>] }
      [] req.kind = "null" ->
           { [raised |-> FALSE, error |-> "", type |-> "None", obj |-> <<>>] }
      [] req.kind = "array" ->
           { [raised |-> FALSE, error |-> "", type |-> "list", obj |-> <<>>] }
      [] req.kind = "object" ->
           { [raised |-> FALSE, error |-> "", type |-> "dict", obj |-> req.obj] }

\* The truth value of the parsed body: None and the empty dict are falsy.
DataTruthy(data) ==
    CASE data.type = "None" -> FALSE
      [] data.type = "list" -> TRUE
      [] data.type = "dict" -> DictTruthy(data.obj)

\* The truth value of a str or None.
Truthy(v) == v # None /\ v # <<>>

\* data.get(key, default)
DictGet(d, key, default) == IF key \in DOMAIN d THEN d[key] ELSE default

DefaultWordCount == 300
DefaultLanguage == <<"E", "n", "g", "l", "i", "s", "h">>

\* A plausible slip: any() where all() is meant.
RequiredPresentAny(academic_grade, subject) ==
    Truthy(academic_grade) \/ Truthy(subject)

\* all([academic_grade, subject])
RequiredPresent(academic_grade, subject) ==
    Truthy(academic_grade) /\ Truthy(subject)

\* return jsonify({"error": ...}), status
ErrorResponse(status, message) == [status |-> status, body |-> [error |-> message]]

\* except Exception as e: return jsonify({"error": str(e)}), 500
OnException(message) == ErrorResponse(500, message)

Language(obj) == DictGet(obj, "language", DefaultLanguage)

\* The get_llm_response call generate_story_content makes.
StoryCall(obj) ==
    [stage |-> "story",
     system_prompt |-> [role |-> "storyteller", language |-> Language(obj),
                        word_count |-> DefaultWordCount],
     user_prompt |-> [subject |-> DictGet(obj, "subject", None),
                      academic_grade |-> DictGet(obj, "academic_grade", None),
                      setting |-> DictGet(obj, "setting", None),
                      main_character |-> DictGet(obj, "main_character", None),
                      subject_specification |-> DictGet(obj, "subject_specification", None)]]

\* The get_llm_response call of generate_quiz, generate_learning_objectives,
\* generate_vocabulary and generate_summary: the story is the user prompt.
DerivedCall(stage, story, language) ==
    [stage |-> stage,
     system_prompt |-> [role |-> stage, language |-> language],
     user_prompt |-> story]

\* A plausible slip: vocabulary generated before the learning objectives.
NextStageVocabularyFirst(stage) ==
    CASE stage = "story" -> "quiz"
      [] stage = "quiz" -> "vocabulary"
      [] stage = "vocabulary" -> "learning_objectives"
      [] stage = "learning_objectives" -> "summary"
      [] stage = "summary" -> "return"

\* The order of the statements of generate_story after validation.
NextStage(stage) ==
    CASE stage = "story" -> "quiz"
      [] stage = "quiz" -> "learning_objectives"
      [] stage = "learning_objectives" -> "vocabulary"
      [] stage = "vocabulary" -> "summary"
      [] stage = "summary" -> "return"

\* What the upstream may answer to the call of a stage.
StoryReplies ==
    { Join(<< <<"H", "e", "r", "e", " ", "i", "s", " ", "i", "t", ":">>,
              <<"T", "i">>, <<>>, <<"B", ".">> >>, <<NL>>),
      <<"T", "i">> }

QuizReplies ==
    { Join(<< <<"Q", ":", " ", "a">>, <<"A", ":", " ", "x">>,
              <<"C", "o", "r", "r", "e", "c", "t", ":", " ", "x">> >>, <<NL>>) }

ObjectivesReplies ==
    { Join(<< <<" ", "D", "o", " ", "y", " ">>, <<>>, <<"D", "o", " ", "x">> >>, <<NL>>) }

VocabularyReplies ==
    { Join(<< <<"W", "o", "r", "d", ":", " ", "w">>,
              <<"D", "e", "f", "i", "n", "i", "t", "i", "o", "n", ":", " ", "d">> >>, <<NL>>) }

SummaryReplies == { <<"S", "u", "m", ".">> }

Replies(stage) ==
    CASE stage = "story" -> StoryReplies
      [] stage = "quiz" -> QuizReplies
      [] stage = "learning_objectives" -> ObjectivesReplies
      [] stage = "vocabulary" -> VocabularyReplies
      [] stage = "summary" -> SummaryReplies

FailureMessages == {"quota exceeded", "connection reset"}

\* model.generate_content(...) either answers with a text or raises.
UpstreamOutcomes(stage) ==
    {[ok |-> TRUE, text |-> t, error |-> ""] : t \in Replies(stage)}
    \cup {[ok |-> FALSE, text |-> <<>>, error |-> m] : m \in FailureMessages}

\* A plausible slip: the except clause answers with an empty text.
get_llm_response_fallback(u) ==
    [raised |-> FALSE, text |-> u.text, error |-> ""]

\* get_llm_response: the reply's text, or the exception raised again.
get_llm_response(u) ==
    [raised |-> ~u.ok, text |-> u.text, error |-> u.error]

\* [obj.strip() for obj in response.split('\n') if obj.strip()]
generate_learning_objectives_lines(resp) == StrippedLines(resp)

\* generate_story from its first line to its first LLM call (or its return).
HandleRequest(req) ==
    /\ pc \in {"idle", "done"}
    /\ \E data \in GetJsonOutcomes(req) :
         /\ request' = req
         /\ replies' = <<>>
         /\ story_content' = None
         /\ quiz_questions' = <<>>
         /\ learning_objectives' = <<>>
         /\ vocabulary' = <<>>
         /\ summary' = None
         /\ IF data.raised
            THEN /\ response' = OnException(data.error)
                 /\ calls' = <<>>
                 /\ pc' = "done"
            ELSE IF ~DataTruthy(data)
            THEN /\ response' = ErrorResponse(400, "No data provided")
                 /\ calls' = <<>>
                 /\ pc' = "done"
            ELSE IF data.type # "dict"
            THEN /\ response' = OnException("'list' object has no attribute 'get'")
                 /\ calls' = <<>>
                 /\ pc' = "done"
            ELSE IF ~RequiredPresent(DictGet(data.obj, "academic_grade", None),
                                     DictGet(data.obj, "subject", None))
            THEN /\ response' = ErrorResponse(400, "Missing required fields")
                 /\ calls' = <<>>
                 /\ pc' = "done"
            ELSE /\ response' = NoResponse
                 /\ calls' = <<StoryCall(data.obj)>>
                 /\ pc' = "story"
    /\ UNCHANGED fvars

\* What follows the return of the call of a stage: the next stage's call,
\* or the 200 response after the last.
Continue(stage, story, quiz, objectives, vocab, summ) ==
    IF NextStage(stage) = "return"
    THEN /\ response' = [status |-> 200,
                         body |-> [content |-> story,
                                   quiz |-> quiz,
                                   learning_objectives |-> objectives,
                                   vocabulary |-> vocab,
                                   summary |-> summ]]
         /\ calls' = calls
         /\ pc' = "done"
    ELSE /\ response' = response
         /\ calls' = Append(calls, DerivedCall(NextStage(stage), story, Language(request.obj)))
         /\ pc' = NextStage(stage)

\* The exception of a failed call reaches the handler's except clause.
Fail(message) ==
    /\ response' = OnException(message)
    /\ calls' = calls
    /\ pc' = "done"
    /\ UNCHANGED <<story_content, quiz_questions, learning_objectives, vocabulary, summary>>

\* generate_story_content: the story call ends.
StoryCallEnds ==
    /\ pc = "story"
    /\ \E u \in UpstreamOutcomes("story") :
         LET r == get_llm_response(u)
         IN  /\ replies' = Append(replies, u)
             /\ IF r.raised THEN Fail(r.error)
                ELSE LET story == clean_story_output(r.text, Language(request.obj))
                     IN  /\ story_content' = story
                         /\ UNCHANGED <<quiz_questions, learning_objectives, vocabulary, summary>>
                         /\ Continue("story", story, quiz_questions, learning_objectives,
                                     vocabulary, summary)
    /\ UNCHANGED <<request>>
    /\ UNCHANGED fvars

\* generate_quiz: the quiz call ends.
QuizCallEnds ==
    /\ pc = "quiz"
    /\ \E u \in UpstreamOutcomes("quiz") :
         LET r == get_llm_response(u)
         IN  /\ replies' = Append(replies, u)
             /\ IF r.raised THEN Fail(r.error)
                ELSE LET questions == parse_quiz_response(r.text)
                     IN  /\ quiz_questions' = questions
                         /\ UNCHANGED <<story_content, learning_objectives, vocabulary, summary>>
                         /\ Continue("quiz", story_content, questions, learning_objectives,
                                     vocabulary, summary)
    /\ UNCHANGED <<request>>
    /\ UNCHANGED fvars

\* generate_learning_objectives: the objectives call ends.
ObjectivesCallEnds ==
    /\ pc = "learning_objectives"
    /\ \E u \in UpstreamOutcomes("learning_objectives") :
         LET r == get_llm_response(u)
         IN  /\ replies' = Append(replies, u)
             /\ IF r.raised THEN Fail(r.error)
                ELSE LET objectives == generate_learning_objectives_lines(r.text)
                     IN  /\ learning_objectives' = objectives
                         /\ UNCHANGED <<story_content, quiz_questions, vocabulary, summary>>
                         /\ Continue("learning_objectives", story_content, quiz_questions,
                                     objectives, vocabulary, summary)
    /\ UNCHANGED <<request>>
    /\ UNCHANGED fvars

\* generate_vocabulary: the vocabulary call ends.
VocabularyCallEnds ==
    /\ pc = "vocabulary"
    /\ \E u \in UpstreamOutcomes("vocabulary") :
         LET r == get_llm_response(u)
         IN  /\ replies' = Append(replies, u)
             /\ IF r.raised THEN Fail(r.error)
                ELSE LET vocab == generate_vocabulary_scan(r.text)
                     IN  /\ vocabulary' = vocab
                         /\ UNCHANGED <<story_content, quiz_questions, learning_objectives, summary>>
                         /\ Continue("vocabulary", story_content, quiz_questions,
                                     learning_objectives, vocab, summary)
    /\ UNCHANGED <<request>>
    /\ UNCHANGED fvars

\* generate_summary: the summary call ends.
SummaryCallEnds ==
    /\ pc = "summary"
    /\ \E u \in UpstreamOutcomes("summary") :
         LET r == get_llm_response(u)
         IN  /\ replies' = Append(replies, u)
             /\ IF r.raised THEN Fail(r.error)
                ELSE /\ summary' = r.text
                     /\ UNCHANGED <<story_content, quiz_questions, learning_objectives, vocabulary>>
                     /\ Continue("summary", story_content, quiz_questions,
                                 learning_objectives, vocabulary, r.text)
    /\ UNCHANGED <<request>>
    /\ UNCHANGED fvars

Init == HandlerIdle /\ HarnessOff

Next ==
    \/ \E req \in ObjectRequests : HandleRequest(req)
    \/ \E req \in OtherRequests : HandleRequest(req)
    \/ StoryCallEnds
    \/ QuizCallEnds
    \/ ObjectivesCallEnds
    \/ VocabularyCallEnds
    \/ SummaryCallEnds

Spec == Init /\ [][Next]_vars

(***************************************************************************)
(* Story cleaner harness: the cleaner applied to a text, then to its own   *)
(* output.                                                                 *)
(***************************************************************************)
InitClean ==
    /\ HandlerIdle
    /\ fn = "clean"
    /\ text \in StoryTexts
    /\ result = None
    /\ result2 = None
    /\ phase = "input"

Clean ==
    /\ fn = "clean"
    /\ phase = "input"
    /\ result' = clean_story_output(text, "English")
    /\ phase' = "once"
    /\ UNCHANGED <<fn, text, result2>>
    /\ UNCHANGED hvars

CleanAgain ==
    /\ fn = "clean"
    /\ phase = "once"
    /\ result2' = clean_story_output(result, "English")
    /\ phase' = "twice"
    /\ UNCHANGED <<fn, text, result>>
    /\ UNCHANGED hvars

NextClean == Clean \/ CleanAgain

SpecClean == InitClean /\ [][NextClean]_vars

(***************************************************************************)
(* Scanner harness: each scanner applied to a reply text.                  *)
(***************************************************************************)
InitScan ==
    /\ HandlerIdle
    /\ \/ fn = "quiz" /\ text \in QuizTexts
       \/ fn = "vocab" /\ text \in VocabTexts
    /\ result = None
    /\ result2 = None
    /\ phase = "input"

ParseQuiz ==
    /\ fn = "quiz"
    /\ phase = "input"
    /\ result' = parse_quiz_response(text)
    /\ phase' = "once"
    /\ UNCHANGED <<fn, text, result2>>
    /\ UNCHANGED hvars

ScanVocabulary ==
    /\ fn = "vocab"
    /\ phase = "input"
    /\ result' = generate_vocabulary_scan(text)
    /\ phase' = "once"
    /\ UNCHANGED <<fn, text, result2>>
    /\ UNCHANGED hvars

NextScan == ParseQuiz \/ ScanVocabulary

SpecScan == InitScan /\ [][NextScan]_vars

(***************************************************************************)
(* Claims about the request handler (checked under Spec).                  *)
(***************************************************************************)

\* A JSON object in which academic_grade or subject is missing: the key is
\* absent, or its value is null or the empty string.
MissingRequired(obj) ==
    \E k \in {"academic_grade", "subject"} :
        k \notin DOMAIN obj \/ obj[k] = None \/ obj[k] = <<>>

\* C1: a request whose JSON object has academic_grade or subject missing
\* (key absent, null or empty) is answered with status 400 and no
\* get_llm_response call is made during it.
C1_MissingFieldsRejectedWithoutLLM ==
    (request.kind = "object" /\ MissingRequired(request.obj)) =>
        /\ calls = <<>>
        /\ pc = "done"
        /\ response.status = 400

\* C1 witness: a non-empty object that has academic_grade but an empty
\* subject was answered.
C1_Witness ==
    /\ pc = "done"
    /\ request.kind = "object"
    /\ DOMAIN request.obj = {"academic_grade", "subject", "language"}
    /\ request.obj["academic_grade"] = <<"5">>
    /\ request.obj["subject"] = <<>>
    /\ response.status = 400
    /\ calls = <<>>

\* C2 (as claimed): every JSON object lacking academic_grade or subject,
\* whatever other keys it has or lacks, gets {"error": "Missing required
\* fields"}; every request whose body is missing or is not valid JSON gets
\* status 400 with {"error": "No data provided"}.
C2_ErrorMessageByCause ==
    pc = "done" =>
        /\ (request.kind = "object" /\ MissingRequired(request.obj)) =>
              /\ response.status = 400
              /\ response.body.error = "Missing required fields"
        /\ request.kind \in {"nobody", "invalid"} =>
              /\ response.status = 400
              /\ response.body.error = "No data provided"

\* The stages of the calls made so far, in order.
StagesCalled == [i \in 1..Len(calls) |-> calls[i].stage]

\* C3: the LLM calls of a valid request happen one at a time in the order
\* story, quiz, learning objectives, vocabulary, summary; a derived call
\* starts only after the story call returned, and its user prompt is the
\* cleaned story; a successful request made exactly five calls and returns
\* exactly the keys content, quiz, learning_objectives, vocabulary, summary.
C3_SequentialPipeline ==
    /\ StagesCalled =
         SubSeq(<<"story", "quiz", "learning_objectives", "vocabulary", "summary">>,
                1, Len(calls))
    /\ Len(replies) <= Len(calls)
    /\ Len(calls) <= Len(replies) + 1
    /\ (pc \notin {"idle", "done"}) => (Len(calls) = Len(replies) + 1 /\ calls[Len(calls)].stage = pc)
    /\ \A i \in 2..Len(calls) :
         /\ replies[1].ok
         /\ \A j \in 1..(i - 1) : replies[j].ok
         /\ calls[i].user_prompt = clean_story_output(replies[1].text, "English")
         /\ calls[i].user_prompt = story_content
    /\ (pc = "done" /\ response.status = 200) =>
         /\ Len(calls) = 5
         /\ Len(replies) = 5
         /\ DOMAIN response.body =
              {"content", "quiz", "learning_objectives", "vocabulary", "summary"}
         /\ response.body.content = story_content

\* C3 witness: a request succeeded after five calls, and the story the
\* derived calls received had a preamble removed by the cleaner.
C3_Witness ==
    /\ pc = "done"
    /\ response.status = 200
    /\ Len(calls) = 5
    /\ story_content # replies[1].text
    /\ calls[5].user_prompt = story_content

\* C4: when the LLM call of a stage fails, the request ends with status 500
\* and a body holding only the error message; the failed call is not made
\* again and no later stage's call is made.
C4_FailureEndsRequest ==
    \A i \in 1..Len(replies) :
        ~replies[i].ok =>
            /\ i = Len(replies)
            /\ Len(calls) = i
            /\ \A j \in 1..(i - 1) : calls[j].stage # calls[i].stage
            /\ pc = "done"
            /\ response.status = 500
            /\ DOMAIN response.body = {"error"}
            /\ response.body.error = replies[i].error

\* C4 witness: the fourth call failed after three artifacts were computed,
\* and the request ended with 500.
C4_Witness ==
    /\ pc = "done"
    /\ Len(replies) = 4
    /\ ~replies[4].ok
    /\ story_content # None
    /\ quiz_questions # <<>>
    /\ learning_objectives # <<>>
    /\ response.status = 500

(***************************************************************************)
(* Claims about the story cleaner (checked under SpecClean).               *)
(***************************************************************************)

\* C6: clean_story_output is idempotent: cleaning the cleaner's own output
\* gives that output back, whether or not some line of the input satisfies
\* the title predicate.
C6_CleanIdempotent == phase = "twice" => result2 = result

\* C6 witness: the cleaner dropped a preamble from a text with a title line
\* and was then applied to its own output.
C6_Witness ==
    /\ fn = "clean"
    /\ phase = "twice"
    /\ result # <<>>
    /\ Len(StrippedLines(result)) < Len(StrippedLines(text))

\* The title predicate as the specification words it.
C7_Qualifies(line) ==
    /\ Len(line) < 100
    /\ \A c \in {".", "!", "?", ",", ":", ";"} : line[Len(line)] # c
    /\ ~(Len(line) >= 4 /\ SubSeq(line, 1, 4) = <<"H", "e", "r", "e">>)
    /\ ~(Len(line) >= 4 /\ Lower(SubSeq(line, 1, 4)) = <<"o", "n", "c", "e">>)

C7_Expected(t) ==
    LET L == StrippedLines(t)
        Q == {i \in 1..Len(L) : C7_Qualifies(L[i])}
    IN  IF Q = {} THEN Join(L, <<NL, NL>>)
        ELSE LET first == CHOOSE i \in Q : \A j \in Q : i <= j
             IN  Join([k \in 1..(Len(L) - first + 1) |-> L[first + k - 1]], <<NL, NL>>)

\* C7: the cleaner returns the non-empty trimmed lines of its input from the
\* first line that is shorter than 100 characters, does not end in one of
\* . ! ? , : ; , does not begin with "Here" and does not begin with "once" in
\* any letter case, through the last line, joined by blank lines; when no
\* line qualifies it returns all the non-empty trimmed lines joined so.
C7_CleanFromFirstTitle ==
    (fn = "clean" /\ phase # "input") => result = C7_Expected(text)

\* C7 witness: a line beginning with "once" in mixed case was skipped before
\* the first qualifying line, and lines follow that one.
C7_Witness ==
    /\ fn = "clean"
    /\ phase = "once"
    /\ LET L == StrippedLines(text)
       IN  /\ Len(L) = 3
           /\ StartsWith(Lower(L[1]), Str_once)
           /\ ~StartsWith(L[1], Str_once)
           /\ C7_Qualifies(L[2])
           /\ result = L[2] \o <<NL, NL>> \o L[3]

(***************************************************************************)
(* Claims about the two scanners (checked under SpecScan).                 *)
(***************************************************************************)

\* The text of a line after its first colon, trimmed: what the
\* specification says a marker line stores.
AfterColon(line) ==
    LET at == {i \in 1..Len(line) : line[i] = ":"}
        i == CHOOSE k \in at : \A j \in at : k <= j
    IN  Strip([k \in 1..(Len(line) - i) |-> line[i + k]])

\* The trimmed values of the input's lines that begin with one of the markers.
MarkerValues(t, markers) ==
    LET L == StrippedLines(t)
    IN  {AfterColon(L[i]) : i \in {j \in 1..Len(L) : \E m \in markers : StartsWith(L[j], m)}}

\* The trimmed values of the input's lines that begin with the marker, in order.
MarkerValueSeq(t, marker) ==
    LET L == SelectSeq(StrippedLines(t), LAMBDA l : StartsWith(l, marker))
    IN  [i \in 1..Len(L) |-> AfterColon(L[i])]

\* C5 (as claimed): in both scanners the value stored for a recognised
\* marker is exactly the text of a line after that marker's colon, trimmed;
\* "Explanation: because" yields "because", "Part of Speech: noun" "noun".
C5_StoredValueIsTextAfterColon ==
    /\ (fn = "quiz" /\ phase = "once") =>
         \A i \in 1..Len(result) :
            /\ result[i].question \in MarkerValues(text, {Str_Q})
            /\ \A k \in 1..Len(result[i].options) :
                 result[i].options[k] \in MarkerValues(text, {Str_A, Str_B, Str_C, Str_D})
            /\ result[i].correct_answer # None =>
                 result[i].correct_answer \in MarkerValues(text, {Str_Correct})
            /\ result[i].explanation # None =>
                 result[i].explanation \in MarkerValues(text, {Str_Explanation})
    /\ (fn = "vocab" /\ phase = "once") =>
         \A i \in 1..Len(result) :
            /\ "word" \in DOMAIN result[i] =>
                 result[i].word \in MarkerValues(text, {Str_Word})
            /\ "definition" \in DOMAIN result[i] =>
                 result[i].definition \in MarkerValues(text, {Str_Definition})
            /\ "example" \in DOMAIN result[i] =>
                 result[i].example \in MarkerValues(text, {Str_Example})
            /\ "part_of_speech" \in DOMAIN result[i] =>
                 result[i].part_of_speech \in MarkerValues(text, {Str_PartOfSpeech})

\* The output entries that a Word: line opened.
WordEntries == SelectSeq(result, LAMBDA e : "word" \in DOMAIN e)

\* C8: in both scanners every record opened by a Q: line (quiz) or a Word:
\* line (vocabulary) appears exactly once in the output, in the order the
\* records were opened, the last one included when the input ends without a
\* terminator, and a record closed by a blank line is not emitted again at
\* end of input.
C8_OpenedRecordsEmittedOnceInOrder ==
    /\ (fn = "quiz" /\ phase = "once") =>
         [i \in 1..Len(result) |-> result[i].question] = MarkerValueSeq(text, Str_Q)
    /\ (fn = "vocab" /\ phase = "once") =>
         [i \in 1..Len(WordEntries) |-> WordEntries[i].word] = MarkerValueSeq(text, Str_Word)

\* C8 witness: two vocabulary records, the first closed by a blank line and
\* the second still open at end of input, both scanned.
C8_Witness ==
    /\ fn = "vocab"
    /\ phase = "once"
    /\ text = Join(<< <<"W", "o", "r", "d", ":", " ", "w">>, <<>>,
                      <<"W", "o", "r", "d", ":", "v", " ">> >>, <<NL>>)
    /\ Len(result) = 2
    /\ result[1].word = <<"w">>
    /\ result[2].word = <<"v">>

\* C9 (as claimed): every QuizQuestion returned has at most 4 options.
C9_AtMostFourOptions ==
    (fn = "quiz" /\ phase = "once") =>
        \A i \in 1..Len(result) : Len(result[i].options) <= 4

\* C10 (as claimed): every vocabulary entry returned has a word field (a
\* Definition:, Example: or Part of Speech: line read while no record is open
\* creates no entry), just as the quiz scanner returns one entry per Q: line
\* and none for the marker lines that come before the first Q: line.
C10_EveryEntryHasWord ==
    /\ (fn = "vocab" /\ phase = "once") =>
         \A i \in 1..Len(result) : "word" \in DOMAIN result[i]
    /\ (fn = "quiz" /\ phase = "once") =>
         Len(result) = Len(MarkerValueSeq(text, Str_Q))

====
